---- MODULE Spec2Model ----
(***************************************************************************)
(* Trajectory integration (mlbtraj/physics.py) and drag calibration        *)
(* (mlbtraj/simulate.py) of the batted-ball simulator.                     *)
(*                                                                         *)
(* Python floats are represented in fixed point:                           *)
(*   lengths        1/100 ft            velocities   1/100 ft/s            *)
(*   accelerations  1/100 ft/s^2        times        1 microsecond         *)
(*   unit vectors and ratios  1/FRAC    coefficients (cd, cl)  1e-6        *)
(*   drag scale     1/SCALE_DEN  (every scale the calibration can form is  *)
(*                  an exact multiple: 1/10 halved, 5/2 times 3/2, and     *)
(*                  midpoints of those)                                    *)
(* Every product of two fixed-point numbers is rounded down to the unit of *)
(* its result (MulDiv).                                                    *)
(***************************************************************************)
EXTENDS Integers, Sequences, FiniteSets, TLC

\* ------------------------------------------------------------------------
\* Fixed-point arithmetic
\* ------------------------------------------------------------------------

\* resolution of unit vectors and interpolation ratios
FRAC == 10000

\* resolution of lengths: units per foot
LEN == 100

Abs(a) == IF a < 0 THEN -a ELSE a

Max(a, b) == IF a >= b THEN a ELSE b

Min(a, b) == IF a <= b THEN a ELSE b

\* floor(a * b / c) for 0 < c <= 46340, without a 32-bit overflow of a * b
MulDiv(a, b, c) ==
    LET qa == a \div c
        ra == a % c
        qb == b \div c
        rb == b % c
    IN  qa * b + ra * qb + (ra * rb) \div c

\* floor(a * b / (c1 * c2)) for 0 < c1, c2 <= 46340, without an overflow of
\* a * b / c1
MulDiv2(a, b, c1, c2) ==
    LET qa == a \div c1
        ra == a % c1
        q2 == MulDiv(qa, b, c2)
        r2 == ((qa % c2) * (b % c2)) % c2
    IN  q2 + (r2 + MulDiv(ra, b, c1)) \div c2

RECURSIVE ISqrtFrom(_, _, _)
ISqrtFrom(n, r, bit) ==
    IF bit = 0 THEN r
    ELSE LET c == r + bit
         IN  IF c <= n \div c THEN ISqrtFrom(n, c, bit \div 2)
                              ELSE ISqrtFrom(n, r, bit \div 2)

\* math.sqrt on a non-negative integer, rounded down
ISqrt(n) == ISqrtFrom(n, 0, 32768)

\* math.hypot(x, y); the operands are scaled down before squaring when
\* their squares would not fit
Hypot(x, y) ==
    LET s == (Max(Abs(x), Abs(y)) \div 30000) + 1
    IN  s * ISqrt((Abs(x) \div s) * (Abs(x) \div s) + (Abs(y) \div s) * (Abs(y) \div s))

\* ------------------------------------------------------------------------
\* physics.py: constants and vector helpers
\* ------------------------------------------------------------------------

\* MPH_TO_FPS = 1.4666667 = 22/15
MPH_TO_FPS_NUM == 22

MPH_TO_FPS_DEN == 15

\* BALL_RADIUS_FT = 1.45 / 12.0, in 1e-6 ft
BALL_RADIUS_FT == 1450000 \div 12

\* BALL_AREA_FT2 = pi * BALL_RADIUS_FT ** 2, in 1e-6 ft^2
BALL_AREA_FT2 == 45869

\* BALL_MASS_SLUG = BALL_MASS_LB / 32.174, in 1e-6 slug
BALL_MASS_SLUG == 9956

\* GRAVITY_FTPS2 = 32.174, in 1/100 ft/s^2
GRAVITY_FTPS2 == 3217

_vec_add(a, b) == << a[1] + b[1], a[2] + b[2], a[3] + b[3] >>

\* _vec_scale(a, scalar) with scalar = num / den
_vec_scale(a, num, den) ==
    << MulDiv(a[1], num, den), MulDiv(a[2], num, den), MulDiv(a[3], num, den) >>

_vec_sub(a, b) == << a[1] - b[1], a[2] - b[2], a[3] - b[3] >>

_vec_len(a) == ISqrt(a[1] * a[1] + a[2] * a[2] + a[3] * a[3])

\* cross product of two vectors in units of 1/FRAC, result in 1/FRAC
_vec_cross(a, b) ==
    << (a[2] * b[3] - a[3] * b[2]) \div FRAC,
       (a[3] * b[1] - a[1] * b[3]) \div FRAC,
       (a[1] * b[2] - a[2] * b[1]) \div FRAC >>

\* ------------------------------------------------------------------------
\* physics.py: aerodynamic models
\* ------------------------------------------------------------------------

\* denominator of the drag scale: 160 * 2^14
SCALE_HI == 160

SCALE_LO == 16384

SCALE_DEN == SCALE_HI * SCALE_LO

\* scale * value, value and result in 1e-6
ScaleTimes(scale, value) == MulDiv2(scale, value, SCALE_LO, SCALE_HI)

RECURSIVE CdLoop(_, _, _)
\* the for loop of DragModel.cd from index i (1-based: knots[i] is the
\* code's knots[i - 1]): the value that is then multiplied by scale
CdLoop(model, speed_mph, i) ==
    IF i > Len(model.knots_mph)
    THEN model.values[Len(model.values)]
    ELSE IF speed_mph <= model.knots_mph[i]
         THEN LET ratio == MulDiv(speed_mph - model.knots_mph[i - 1], FRAC,
                                  model.knots_mph[i] - model.knots_mph[i - 1])
              IN  model.values[i - 1]
                  + MulDiv(ratio, model.values[i] - model.values[i - 1], FRAC)
         ELSE CdLoop(model, speed_mph, i + 1)

\* CdValue clamping to the last value below the first knot
CdValueFlipped(model, speed_mph) ==
    IF speed_mph <= model.knots_mph[1]
    THEN model.values[Len(model.values)]
    ELSE IF speed_mph >= model.knots_mph[Len(model.knots_mph)]
         THEN model.values[Len(model.values)]
         ELSE CdLoop(model, speed_mph, 2)

\* the value DragModel.cd multiplies by scale, at a speed in 1/100 mph
CdValue(model, speed_mph) ==
    IF speed_mph <= model.knots_mph[1]
    THEN model.values[1]
    ELSE IF speed_mph >= model.knots_mph[Len(model.knots_mph)]
         THEN model.values[Len(model.values)]
         ELSE CdLoop(model, speed_mph, 2)

\* DragModel.cd(speed_fps, scale): knots in 1/100 mph, values in 1e-6
DragModel_cd(model, speed_fps, scale) ==
    ScaleTimes(scale, CdValue(model, MulDiv(speed_fps, MPH_TO_FPS_DEN, MPH_TO_FPS_NUM)))

\* LiftModel.cl(spin_rps, speed_fps): spin_rps in 1/100 rev/s, c1 in 1/1000,
\* max_value and result in 1e-6; a speed of at most 1e-6 ft/s is the fixed
\* point 0
LiftModel_cl(model, spin_rps, speed_fps) ==
    IF speed_fps <= 0 THEN 0
    ELSE LET spin_ratio == MulDiv(MulDiv(spin_rps, BALL_RADIUS_FT, FRAC), FRAC, speed_fps)
         IN  Min(model.max_value, MulDiv(spin_ratio, model.c1, 1000))

\* 0.5 * air_density * BALL_AREA_FT2 * coeff * speed**2 / BALL_MASS_SLUG:
\* the magnitude of the drag and of the lift acceleration;
\* air_density in 1e-7 slug/ft^3, coeff in 1e-6, speed in 1/100 ft/s
AeroMag(environment, coeff, speed) ==
    LET half_rho_a == (environment.air_density * BALL_AREA_FT2) \div 200
        with_coeff == MulDiv2(half_rho_a, coeff, FRAC, 100)
        force      == MulDiv(MulDiv(with_coeff, speed, FRAC), speed, FRAC)
    IN  MulDiv(force, 10, BALL_MASS_SLUG)

\* drag_force of _acceleration: drag_direction scaled by drag_mag
DragForce(rel_vel, speed, environment, drag_model, drag_scale) ==
    _vec_scale(_vec_scale(rel_vel, -FRAC, speed),
               AeroMag(environment, DragModel_cd(drag_model, speed, drag_scale), speed),
               FRAC)

\* magnus of _acceleration once spin_axis_len is known: lift_dir scaled by
\* lift_mag, or zero
LiftForce(v_hat, spin_axis, spin_axis_len, cl, speed, environment) ==
    IF spin_axis_len > 0
    THEN _vec_scale(_vec_cross(_vec_scale(spin_axis, FRAC, spin_axis_len), v_hat),
                    AeroMag(environment, cl, speed), FRAC)
    ELSE << 0, 0, 0 >>

\* magnus of _acceleration once spin_axis is known
MagnusAbout(v_hat, spin_axis, cl, speed, environment) ==
    LiftForce(v_hat, spin_axis, _vec_len(spin_axis), cl, speed, environment)

\* magnus of _acceleration once v_hat is known
MagnusAlong(v_hat, cl, speed, environment) ==
    MagnusAbout(v_hat, _vec_cross(v_hat, << 0, 0, FRAC >>), cl, speed, environment)

\* magnus of _acceleration for the lift coefficient cl
Magnus(rel_vel, speed, cl, environment) ==
    IF cl # 0
    THEN MagnusAlong(_vec_scale(rel_vel, FRAC, speed), cl, speed, environment)
    ELSE << 0, 0, 0 >>

\* _acceleration once rel_vel and speed are known
Total(rel_vel, speed, spin_rpm, environment, drag_model, lift_model, drag_scale) ==
    IF speed <= 0
    THEN << 0, 0, -environment.gravity >>
    ELSE _vec_add(
             _vec_add(<< 0, 0, -environment.gravity >>,
                      DragForce(rel_vel, speed, environment, drag_model, drag_scale)),
             Magnus(rel_vel, speed,
                    LiftModel_cl(lift_model, (spin_rpm * 100) \div 60, speed),
                    environment))

\* _acceleration(vel, spin_rpm, environment, drag_model, lift_model, drag_scale)
_acceleration(vel, spin_rpm, environment, drag_model, lift_model, drag_scale) ==
    LET rel_vel == _vec_sub(vel, environment.wind_vector)
    IN  Total(rel_vel, _vec_len(rel_vel), spin_rpm, environment, drag_model,
              lift_model, drag_scale)

\* ------------------------------------------------------------------------
\* physics.py: integrate_trajectory
\* ------------------------------------------------------------------------

\* the closure deriv(vec) of integrate_trajectory; p carries the keyword
\* arguments of the call
deriv(p, vec) ==
    LET vel == << vec[4], vec[5], vec[6] >>
    IN  vel \o _acceleration(vel, p.spin_rpm, p.environment, p.drag_model,
                              p.lift_model, p.drag_scale)

\* _state_step(state, deriv, factor) with factor = num / den seconds
_state_step(state, d, num, den) ==
    << state[1] + MulDiv2(d[1], num, 1000, den),
       state[2] + MulDiv2(d[2], num, 1000, den),
       state[3] + MulDiv2(d[3], num, 1000, den),
       state[4] + MulDiv2(d[4], num, 1000, den),
       state[5] + MulDiv2(d[5], num, 1000, den),
       state[6] + MulDiv2(d[6], num, 1000, den) >>

\* the weighted sum of the four slopes added to the state
RK4Sum(state, k1, k2, k3, k4, dt) ==
    << state[1] + MulDiv2(k1[1] + 2 * k2[1] + 2 * k3[1] + k4[1], dt, 1000, 6000),
       state[2] + MulDiv2(k1[2] + 2 * k2[2] + 2 * k3[2] + k4[2], dt, 1000, 6000),
       state[3] + MulDiv2(k1[3] + 2 * k2[3] + 2 * k3[3] + k4[3], dt, 1000, 6000),
       state[4] + MulDiv2(k1[4] + 2 * k2[4] + 2 * k3[4] + k4[4], dt, 1000, 6000),
       state[5] + MulDiv2(k1[5] + 2 * k2[5] + 2 * k3[5] + k4[5], dt, 1000, 6000),
       state[6] + MulDiv2(k1[6] + 2 * k2[6] + 2 * k3[6] + k4[6], dt, 1000, 6000) >>

\* one Runge-Kutta step of the loop body
RK4(p, state) ==
    LET k1 == deriv(p, state)
        k2 == deriv(p, _state_step(state, k1, p.dt, 2000))
        k3 == deriv(p, _state_step(state, k2, p.dt, 2000))
        k4 == deriv(p, _state_step(state, k3, p.dt, 1000))
    IN  RK4Sum(state, k1, k2, k3, k4, p.dt)

TrajectoryPoint(t, x, y, z) == [t |-> t, x |-> x, y |-> y, z |-> z]

\* RefineLanding writing the contact point over the sample before the last
RefineLandingPrev(points) ==
    LET n == Len(points)
        last == points[n]
        prev == points[n - 1]
        span == last.z - prev.z
        num == IF Abs(span) <= 0 THEN 0
               ELSE IF prev.z - last.z < 0 THEN -prev.z ELSE prev.z
        den == IF Abs(span) <= 0 THEN 1 ELSE Abs(prev.z - last.z)
        x == prev.x + MulDiv(last.x - prev.x, num, den)
        y == prev.y + MulDiv(last.y - prev.y, num, den)
        t_contact == prev.t + MulDiv(last.t - prev.t, num, den)
    IN  [points EXCEPT ![n - 1] = TrajectoryPoint(t_contact, x, y, 0)]

\* the landing refinement: the last point replaced by the interpolated
\* contact point
RefineLanding(points) ==
    LET n == Len(points)
        last == points[n]
        prev == points[n - 1]
        span == last.z - prev.z
        \* ratio = num / den, 0 when abs(span) < 1e-6
        num == IF Abs(span) <= 0 THEN 0
               ELSE IF prev.z - last.z < 0 THEN -prev.z ELSE prev.z
        den == IF Abs(span) <= 0 THEN 1 ELSE Abs(prev.z - last.z)
        x == prev.x + MulDiv(last.x - prev.x, num, den)
        y == prev.y + MulDiv(last.y - prev.y, num, den)
        t_contact == prev.t + MulDiv(last.t - prev.t, num, den)
    IN  [points EXCEPT ![n] = TrajectoryPoint(t_contact, x, y, 0)]

\* Trajectory(points, landing_distance, apex, flight_time) with the distance
\* and the time read from the final point
Trajectory(points, apex) ==
    [points |-> points,
     landing_distance |-> IF Len(points) > 0
                          THEN Hypot(points[Len(points)].x, points[Len(points)].y)
                          ELSE 0,
     apex |-> apex,
     flight_time |-> IF Len(points) > 0 THEN points[Len(points)].t ELSE 0]

\* Finish without the landing refinement
FinishRaw(points, apex) ==
    Trajectory(points, apex)

\* the code after the loop: refinement, landing_distance, flight_time
Finish(points, apex) ==
    Trajectory(IF Len(points) >= 2 /\ points[Len(points)].z < 0
               THEN RefineLanding(points) ELSE points,
               apex)

\* Grounded applying the ground test to the sample at t = 0 as well
GroundedAtLaunch(tt, st) == st[3] <= 0

\* the ground test of the loop
Grounded(tt, st) == tt > 0 /\ st[3] <= 0

\* points.append(TrajectoryPoint(t, x, y, z))
LoopAppend(pts, tt, st) == Append(pts, TrajectoryPoint(tt, st[1], st[2], st[3]))

\* InTime letting the loop run one step past max_time
InTimeLate(tt, p) == tt <= p.max_time + p.dt

\* the loop condition t <= max_time
InTime(tt, p) == tt <= p.max_time

RECURSIVE Loop(_, _, _, _, _)
\* the while loop of integrate_trajectory followed by the code after it
Loop(p, state, t, points, apex) ==
    IF InTime(t, p)
    THEN LET pts == LoopAppend(points, t, state)
             apx == Max(apex, state[3])
         IN  IF Grounded(t, state)
             THEN Finish(pts, apx)
             ELSE Loop(p, RK4(p, state), t + p.dt, pts, apx)
    ELSE Finish(points, apex)

\* integrate_trajectory(pos0, vel0, **p)
integrate_trajectory(pos0, vel0, p) ==
    Loop(p, pos0 \o vel0, 0, << >>, pos0[3])

\* ------------------------------------------------------------------------
\* Model inputs
\* ------------------------------------------------------------------------

\* the time step of the model's default integration, in microseconds (the
\* code's default dt is 0.01 s; the model integrates with a coarser step)
StepMicros == 100000

\* number of default time steps that make the default max_time (the code's
\* default is 12 s = 1200 steps)
HorizonSteps == 30

DEFAULT_DT == StepMicros

DEFAULT_MAX_TIME == HorizonSteps * StepMicros

\* scales as multiples of 1/SCALE_DEN
Scale(num, den) == (SCALE_DEN \div den) * num

\* Environment: air density 0.0023 slug/ft^3 (in 1e-7), no wind or a
\* tail wind of 30 ft/s
Environments ==
    { [air_density |-> 23000, gravity |-> GRAVITY_FTPS2, wind_vector |-> w] :
        w \in { << 0, 0, 0 >>, << 0, 3000, 0 >> } }

StillAir == [air_density |-> 23000, gravity |-> GRAVITY_FTPS2, wind_vector |-> << 0, 0, 0 >>]

\* DragModel: knots 0, 60, 90, 120 mph
DefaultDrag ==
    [knots_mph |-> << 0, 6000, 9000, 12000 >>,
     values |-> << 500000, 450000, 330000, 300000 >>]

\* LiftModel(c1 = 1.0, max_value = 0.3)
DefaultLift == [c1 |-> 1000, max_value |-> 300000]

\* initial positions of direct integrate_trajectory calls: the contact
\* height of simulate_event, the ground, below the ground, just above it
IntPositions == { << 0, 0, 3 * LEN >>, << 0, 0, 0 >>, << 0, 0, -LEN >>, << 200, 0, 1 >> }

\* initial velocities: a fly ball, a ground ball, a ball at rest, a slow
\* rising ball
IntVelocities ==
    { << 0, 12950, 6886 >>, << 1500, 16000, -800 >>, << 0, 0, 0 >>, << 0, 500, 161 >> }

IntSteps == { StepMicros, 2 * StepMicros + 50000 }

IntMaxTimes == { 0, 3 * StepMicros, 10 * StepMicros, DEFAULT_MAX_TIME }

IntParams ==
    { [spin_rpm |-> spin, environment |-> env, drag_model |-> DefaultDrag,
       lift_model |-> DefaultLift, drag_scale |-> Scale(1, 1), dt |-> dt,
       max_time |-> mt] :
        spin \in { 0, 1800 }, env \in Environments, dt \in IntSteps, mt \in IntMaxTimes }

\* ------------------------------------------------------------------------
\* State
\* ------------------------------------------------------------------------

VARIABLES
    \* integrate_trajectory, run step by step
    call,       \* the arguments of the call: pos0, vel0, p
    state,      \* the 6-vector position ++ velocity
    t,          \* the loop's time
    points,     \* the list of TrajectoryPoint
    apex,       \* running maximum of z
    ipc,        \* "idle", "loop" or "done"
    exit,       \* how the loop ended: "none", "ground" or "max_time"
    traj,       \* the returned Trajectory
    raw,        \* history: the samples appended by the loop, unrefined
    rk_steps    \* history: number of Runge-Kutta steps taken

intVars == << call, state, t, points, apex, ipc, exit, traj, raw, rk_steps >>

\* simulate_event and _calibrate_to_distance
VARIABLES
    sim,                \* the Simulator: environment, drag_model, lift_model
    event,              \* the PlayEvent
    calibrate_distance, \* keyword argument of simulate_event
    tolerance,          \* keyword argument of simulate_event
    cpc,                \* "idle", "start", "expand_low", "expand_high",
                        \* "bisect" or "done"
    target,
    low,
    high,
    traj_low,
    traj_high,
    best_traj,
    best_scale,
    best_diff,
    iter,               \* iterations of the bisection loop begun
    result,             \* the SimulationResult
    evals,              \* history: the drag_scale of every integration run
    halvings,           \* history: number of times low was halved
    growths,            \* history: number of times high was multiplied
    ret                 \* history: the return statement taken: "none",
                        \* "plain", "low", "high" or "best"

simVars == << sim, event, calibrate_distance, tolerance, cpc, target, low, high,
              traj_low, traj_high, best_traj, best_scale, best_diff, iter,
              result, evals, halvings, growths, ret >>

\* successive calls of simulate_event on one Simulator
VARIABLES
    calls,      \* number of calls of simulate_event begun
    prior       \* history: the inputs and the result of every finished call

batchVars == << calls, prior >>

\* DragModel.from_file, LiftModel.from_file and DragModel.cd
VARIABLES
    cfg_data,   \* the parsed JSON of the aerodynamic configuration file
    cfg_name,   \* the name argument of from_file
    cfg_pc,     \* "idle", "load", "built", "failed" or "used"
    drag,       \* the DragModel built, << >> before
    lift,       \* the LiftModel built, << >> before
    cd_call     \* the last call of drag.cd: its arguments and its outcome

cfgVars == << cfg_data, cfg_name, cfg_pc, drag, lift, cd_call >>

\* OutputWriter.write
VARIABLES
    results,            \* the argument results, in the order supplied
    out_pc,             \* "idle", "start", "rows" or "done"
    ordered_results,    \* the sorted list
    next_result,        \* index of the next result the loop visits
    playlist_payload,   \* the dictionary under construction
    summary_rows,       \* the data rows written to summary.csv
    playlist_file,      \* the content of playlist.json, << >> before written
    trajectory_files    \* the play_id of every trajectory file written

outVars == << results, out_pc, ordered_results, next_result, playlist_payload,
              summary_rows, playlist_file, trajectory_files >>

vars == << intVars, simVars, batchVars, cfgVars, outVars >>

NoTrajectory == [points |-> << >>, landing_distance |-> 0, apex |-> 0, flight_time |-> 0]

NoResult == [trajectory |-> NoTrajectory, drag_scale |-> 0, distance_error |-> << >>]

NoEvent ==
    [launch_speed |-> 0, launch_angle |-> 0, spray_angle |-> 0,
     hit_distance |-> << >>, spin_rpm |-> 0]

\* no simulate_event is running
SimIdle ==
    /\ sim = [environment |-> StillAir, drag_model |-> DefaultDrag, lift_model |-> DefaultLift]
    /\ event = NoEvent
    /\ calibrate_distance = FALSE
    /\ tolerance = 0
    /\ cpc = "idle"
    /\ target = 0 /\ low = 0 /\ high = 0
    /\ traj_low = NoTrajectory /\ traj_high = NoTrajectory
    /\ best_traj = NoTrajectory /\ best_scale = 0 /\ best_diff = 0
    /\ iter = 0
    /\ result = NoResult
    /\ evals = << >>
    /\ halvings = 0 /\ growths = 0
    /\ ret = "none"

\* no second call of simulate_event has been made
BatchIdle == calls = 0 /\ prior = { }

\* no configuration file is being loaded
CfgIdle ==
    /\ cfg_data = << >> /\ cfg_name = "" /\ cfg_pc = "idle"
    /\ drag = << >> /\ lift = << >> /\ cd_call = << >>

\* OutputWriter.write is not running
OutIdle ==
    /\ results = << >> /\ out_pc = "idle" /\ ordered_results = << >>
    /\ next_result = 0 /\ playlist_payload = << >> /\ summary_rows = << >>
    /\ playlist_file = << >> /\ trajectory_files = << >>

\* integrate_trajectory is not running
IntIdle ==
    /\ call = << >> /\ state = << >> /\ t = 0 /\ points = << >> /\ apex = 0
    /\ ipc = "idle" /\ exit = "none" /\ traj = NoTrajectory
    /\ raw = << >> /\ rk_steps = 0

\* the state of integrate_trajectory on entry to its loop
IntInit ==
    /\ SimIdle /\ BatchIdle /\ CfgIdle /\ OutIdle
    /\ call \in [pos0 : IntPositions, vel0 : IntVelocities, p : IntParams]
    /\ state = call.pos0 \o call.vel0
    /\ t = 0
    /\ points = << >>
    /\ apex = call.pos0[3]
    /\ ipc = "loop"
    /\ exit = "none"
    /\ traj = NoTrajectory
    /\ raw = << >>
    /\ rk_steps = 0

\* a loop iteration that does not break: append, apex, Runge-Kutta step
Advance ==
    /\ ipc = "loop"
    /\ InTime(t, call.p)
    /\ ~Grounded(t, state)
    /\ points' = LoopAppend(points, t, state)
    /\ raw' = LoopAppend(raw, t, state)
    /\ apex' = Max(apex, state[3])
    /\ state' = RK4(call.p, state)
    /\ t' = t + call.p.dt
    /\ rk_steps' = rk_steps + 1
    /\ UNCHANGED << call, ipc, exit, traj >>
    /\ UNCHANGED << simVars, batchVars, cfgVars, outVars >>

\* the loop iteration that breaks on ground contact, and the return
Land ==
    /\ ipc = "loop"
    /\ InTime(t, call.p)
    /\ Grounded(t, state)
    /\ raw' = LoopAppend(raw, t, state)
    /\ apex' = Max(apex, state[3])
    /\ traj' = Finish(LoopAppend(points, t, state), apex')
    /\ points' = traj'.points
    /\ ipc' = "done"
    /\ exit' = "ground"
    /\ UNCHANGED << call, state, t, rk_steps >>
    /\ UNCHANGED << simVars, batchVars, cfgVars, outVars >>

\* TimeUp interpolating between the last two samples
TimeUpRefined ==
    /\ ipc = "loop"
    /\ ~InTime(t, call.p)
    /\ traj' = IF Len(points) >= 2
               THEN Trajectory(RefineLanding(points), apex)
               ELSE Finish(points, apex)
    /\ points' = traj'.points
    /\ ipc' = "done"
    /\ exit' = "max_time"
    /\ UNCHANGED << call, state, t, apex, raw, rk_steps >>
    /\ UNCHANGED << simVars, batchVars, cfgVars, outVars >>

\* the loop condition fails: the return without ground contact
TimeUp ==
    /\ ipc = "loop"
    /\ ~InTime(t, call.p)
    /\ traj' = Finish(points, apex)
    /\ points' = traj'.points
    /\ ipc' = "done"
    /\ exit' = "max_time"
    /\ UNCHANGED << call, state, t, apex, raw, rk_steps >>
    /\ UNCHANGED << simVars, batchVars, cfgVars, outVars >>

NextIntegrate == Advance \/ Land \/ TimeUp

SpecIntegrate == IntInit /\ [][NextIntegrate]_vars

\* the step-by-step run returns what the operator integrate_trajectory does
StepwiseAgrees ==
    ipc = "done" => traj = integrate_trajectory(call.pos0, call.vel0, call.p)

\* ------------------------------------------------------------------------
\* simulate.py: Simulator.simulate_event and _calibrate_to_distance
\* ------------------------------------------------------------------------

\* _INITIAL_HEIGHT_FT = 3.0
_INITIAL_HEIGHT_FT == 3 * LEN

\* math.sin(math.radians(deg)) and math.cos(math.radians(deg)) in 1/FRAC, on
\* the angles of the model's events
SinDeg(deg) ==
    CASE deg = -3 -> -523 [] deg = 0 -> 0 [] deg = 15 -> 2588 [] deg = 28 -> 4695

CosDeg(deg) ==
    CASE deg = -3 -> 9986 [] deg = 0 -> 10000 [] deg = 15 -> 9659 [] deg = 28 -> 8829

\* Python truthiness of event.hit_distance: None and 0.0 are false
Truthy(opt) == opt # << >> /\ opt[1] # 0

\* pos0 of simulate_event
LaunchPos == << 0, 0, _INITIAL_HEIGHT_FT >>

\* vel0 of simulate_event; launch_speed in 1/100 mph
LaunchVel(ev) ==
    LET speed_fps == MulDiv(ev.launch_speed, MPH_TO_FPS_NUM, MPH_TO_FPS_DEN)
        vz0 == MulDiv(speed_fps, SinDeg(ev.launch_angle), FRAC)
        vh == MulDiv(speed_fps, CosDeg(ev.launch_angle), FRAC)
        vx0 == MulDiv(vh, SinDeg(ev.spray_angle), FRAC)
        vy0 == MulDiv(vh, CosDeg(ev.spray_angle), FRAC)
    IN  << vx0, vy0, vz0 >>

\* integrate_trajectory(pos0, vel0, spin_rpm=event.spin_rpm,
\* environment=..., drag_model=..., lift_model=..., drag_scale=scale), with
\* the default dt and max_time
Integrate(s, ev, scale) ==
    integrate_trajectory(LaunchPos, LaunchVel(ev),
        [spin_rpm |-> ev.spin_rpm, environment |-> s.environment,
         drag_model |-> s.drag_model, lift_model |-> s.lift_model,
         drag_scale |-> scale, dt |-> DEFAULT_DT, max_time |-> DEFAULT_MAX_TIME])

SimulationResult(trajectory, drag_scale, distance_error) ==
    [trajectory |-> trajectory, drag_scale |-> drag_scale,
     distance_error |-> distance_error]

\* low = 0.1 and high = 2.5
InitialLow == Scale(1, 10)

InitialHigh == Scale(5, 2)

\* low > 0.02
AboveFloor(scale) == scale * 50 > SCALE_DEN

\* BelowCeiling with a ceiling of 120.0
BelowCeilingWide(scale) == scale < Scale(120, 1)

\* high < 12.0
BelowCeiling(scale) == scale < Scale(12, 1)

\* a break test of high - low < 1e-6
NarrowFine(lo, hi) == (hi - lo) * 25 < SCALE_DEN \div 40000

\* high - low < 1e-3
Narrow(lo, hi) == (hi - lo) * 25 < SCALE_DEN \div 40

\* max_iter = 24
max_iter == 24

\* the SimulationResult of the call that does not calibrate
PlainResult(ev, trajectory) ==
    SimulationResult(trajectory, Scale(1, 1),
        IF Truthy(ev.hit_distance)
        THEN << trajectory.landing_distance - ev.hit_distance[1] >>
        ELSE << >>)

\* the call of simulate_event that does not calibrate
SimulatePlain ==
    /\ cpc = "start"
    /\ ~(calibrate_distance /\ Truthy(event.hit_distance))
    /\ result' = PlainResult(event, Integrate(sim, event, Scale(1, 1)))
    /\ evals' = Append(evals, Scale(1, 1))
    /\ cpc' = "done"
    /\ ret' = "plain"
    /\ UNCHANGED << sim, event, calibrate_distance, tolerance, target, low, high,
                    traj_low, traj_high, best_traj, best_scale, best_diff, iter,
                    halvings, growths >>
    /\ UNCHANGED << intVars, batchVars, cfgVars, outVars >>

\* CalibrateStart leaving the upper scale applied to the values of the
\* Simulator's DragModel
CalibrateStartShared ==
    /\ cpc = "start"
    /\ calibrate_distance /\ Truthy(event.hit_distance)
    /\ target' = event.hit_distance[1]
    /\ low' = InitialLow
    /\ high' = InitialHigh
    /\ traj_low' = Integrate(sim, event, InitialLow)
    /\ traj_high' = Integrate(sim, event, InitialHigh)
    /\ sim' = [sim EXCEPT !.drag_model.values =
                  << ScaleTimes(InitialHigh, @[1]), ScaleTimes(InitialHigh, @[2]),
                     ScaleTimes(InitialHigh, @[3]), ScaleTimes(InitialHigh, @[4]) >>]
    /\ evals' = evals \o << InitialLow, InitialHigh >>
    /\ cpc' = "expand_low"
    /\ UNCHANGED << ret, event, calibrate_distance, tolerance, best_traj,
                    best_scale, best_diff, iter, result, halvings, growths >>
    /\ UNCHANGED << intVars, batchVars, cfgVars, outVars >>

\* entry of _calibrate_to_distance: the two initial integrations
CalibrateStart ==
    /\ cpc = "start"
    /\ calibrate_distance /\ Truthy(event.hit_distance)
    /\ target' = event.hit_distance[1]
    /\ low' = InitialLow
    /\ high' = InitialHigh
    /\ traj_low' = Integrate(sim, event, InitialLow)
    /\ traj_high' = Integrate(sim, event, InitialHigh)
    /\ evals' = evals \o << InitialLow, InitialHigh >>
    /\ cpc' = "expand_low"
    /\ UNCHANGED << ret, sim, event, calibrate_distance, tolerance, best_traj,
                    best_scale, best_diff, iter, result, halvings, growths >>
    /\ UNCHANGED << intVars, batchVars, cfgVars, outVars >>

\* low *= 0.5
Halve(scale) == scale \div 2

\* one iteration of the downward expansion
ExpandLow ==
    /\ cpc = "expand_low"
    /\ target >= traj_low.landing_distance /\ AboveFloor(low)
    /\ low' = Halve(low)
    /\ traj_low' = Integrate(sim, event, low')
    /\ evals' = Append(evals, low')
    /\ halvings' = halvings + 1
    /\ UNCHANGED << ret, sim, event, calibrate_distance, tolerance, cpc, target, high,
                    traj_high, best_traj, best_scale, best_diff, iter, result,
                    growths >>
    /\ UNCHANGED << intVars, batchVars, cfgVars, outVars >>

\* ReturnLow with the sign of the error reversed
ReturnLowReversed ==
    /\ cpc = "expand_low"
    /\ ~(target >= traj_low.landing_distance /\ AboveFloor(low))
    /\ target >= traj_low.landing_distance
    /\ LET err == target - traj_low.landing_distance
       IN  result' = SimulationResult(traj_low, low, << err >>)
    /\ cpc' = "done"
    /\ ret' = "low"
    /\ UNCHANGED << sim, event, calibrate_distance, tolerance, target, low, high,
                    traj_low, traj_high, best_traj, best_scale, best_diff, iter,
                    evals, halvings, growths >>
    /\ UNCHANGED << intVars, batchVars, cfgVars, outVars >>

\* the downward expansion ended without bracketing: return traj_low
ReturnLow ==
    /\ cpc = "expand_low"
    /\ ~(target >= traj_low.landing_distance /\ AboveFloor(low))
    /\ target >= traj_low.landing_distance
    /\ LET err == traj_low.landing_distance - target
       IN  result' = SimulationResult(traj_low, low, << err >>)
    /\ cpc' = "done"
    /\ ret' = "low"
    /\ UNCHANGED << sim, event, calibrate_distance, tolerance, target, low, high,
                    traj_low, traj_high, best_traj, best_scale, best_diff, iter,
                    evals, halvings, growths >>
    /\ UNCHANGED << intVars, batchVars, cfgVars, outVars >>

\* the downward expansion bracketed the target: on to the upward expansion
LowBracketed ==
    /\ cpc = "expand_low"
    /\ ~(target >= traj_low.landing_distance /\ AboveFloor(low))
    /\ ~(target >= traj_low.landing_distance)
    /\ cpc' = "expand_high"
    /\ UNCHANGED << ret, sim, event, calibrate_distance, tolerance, target, low, high,
                    traj_low, traj_high, best_traj, best_scale, best_diff, iter,
                    result, evals, halvings, growths >>
    /\ UNCHANGED << intVars, batchVars, cfgVars, outVars >>

\* high *= 1.5
Grow(scale) == (scale \div 2) * 3

\* one iteration of the upward expansion
ExpandHigh ==
    /\ cpc = "expand_high"
    /\ target <= traj_high.landing_distance /\ BelowCeiling(high)
    /\ high' = Grow(high)
    /\ traj_high' = Integrate(sim, event, high')
    /\ evals' = Append(evals, high')
    /\ growths' = growths + 1
    /\ UNCHANGED << ret, sim, event, calibrate_distance, tolerance, cpc, target, low,
                    traj_low, best_traj, best_scale, best_diff, iter, result,
                    halvings >>
    /\ UNCHANGED << intVars, batchVars, cfgVars, outVars >>

\* ReturnHigh returning the trajectory of the lower endpoint
ReturnHighMixed ==
    /\ cpc = "expand_high"
    /\ ~(target <= traj_high.landing_distance /\ BelowCeiling(high))
    /\ target <= traj_high.landing_distance
    /\ LET err == traj_high.landing_distance - target
       IN  result' = SimulationResult(traj_low, high, << err >>)
    /\ cpc' = "done"
    /\ ret' = "high"
    /\ UNCHANGED << sim, event, calibrate_distance, tolerance, target, low, high,
                    traj_low, traj_high, best_traj, best_scale, best_diff, iter,
                    evals, halvings, growths >>
    /\ UNCHANGED << intVars, batchVars, cfgVars, outVars >>

\* the upward expansion ended without bracketing: return traj_high
ReturnHigh ==
    /\ cpc = "expand_high"
    /\ ~(target <= traj_high.landing_distance /\ BelowCeiling(high))
    /\ target <= traj_high.landing_distance
    /\ LET err == traj_high.landing_distance - target
       IN  result' = SimulationResult(traj_high, high, << err >>)
    /\ cpc' = "done"
    /\ ret' = "high"
    /\ UNCHANGED << sim, event, calibrate_distance, tolerance, target, low, high,
                    traj_low, traj_high, best_traj, best_scale, best_diff, iter,
                    evals, halvings, growths >>
    /\ UNCHANGED << intVars, batchVars, cfgVars, outVars >>

\* both expansions bracketed the target: the bisection starts from traj_low
BisectStart ==
    /\ cpc = "expand_high"
    /\ ~(target <= traj_high.landing_distance /\ BelowCeiling(high))
    /\ ~(target <= traj_high.landing_distance)
    /\ best_traj' = traj_low
    /\ best_scale' = low
    /\ best_diff' = Abs(traj_low.landing_distance - target)
    /\ iter' = 0
    /\ cpc' = "bisect"
    /\ UNCHANGED << ret, sim, event, calibrate_distance, tolerance, target, low, high,
                    traj_low, traj_high, result, evals, halvings, growths >>
    /\ UNCHANGED << intVars, batchVars, cfgVars, outVars >>

\* Midpoint a third of the way from low to high
MidpointThird(lo, hi) == lo + (hi - lo) \div 3

\* mid = 0.5 * (low + high)
Midpoint(lo, hi) == (lo + hi) \div 2

\* BisectBody taking a midpoint that is as good as the best so far
BisectBodyLatest(mid, traj_mid) ==
    /\ IF Abs(traj_mid.landing_distance - target) <= best_diff
       THEN /\ best_traj' = traj_mid
            /\ best_scale' = mid
            /\ best_diff' = Abs(traj_mid.landing_distance - target)
       ELSE UNCHANGED << best_traj, best_scale, best_diff >>
    /\ IF traj_mid.landing_distance - target > 0
       THEN low' = mid /\ high' = high
       ELSE high' = mid /\ low' = low
    /\ evals' = Append(evals, mid)

\* the body of the bisection loop up to its break test, for the midpoint and
\* the trajectory integrated at it
BisectBody(mid, traj_mid) ==
    /\ IF Abs(traj_mid.landing_distance - target) < best_diff
       THEN /\ best_traj' = traj_mid
            /\ best_scale' = mid
            /\ best_diff' = Abs(traj_mid.landing_distance - target)
       ELSE UNCHANGED << best_traj, best_scale, best_diff >>
    /\ IF traj_mid.landing_distance - target > 0
       THEN low' = mid /\ high' = high
       ELSE high' = mid /\ low' = low
    /\ evals' = Append(evals, mid)

\* BisectIter leaving the loop once the best error is within the tolerance
BisectIterTolerant ==
    /\ cpc = "bisect"
    /\ iter < max_iter
    /\ BisectBody(Midpoint(low, high), Integrate(sim, event, Midpoint(low, high)))
    /\ iter' = iter + 1
    /\ cpc' = IF Narrow(low', high') \/ ~(iter' < max_iter) \/ best_diff' <= tolerance
              THEN "bisect_done" ELSE "bisect"
    /\ UNCHANGED << ret, sim, event, calibrate_distance, tolerance, target,
                    traj_low, traj_high, result, halvings, growths >>
    /\ UNCHANGED << intVars, batchVars, cfgVars, outVars >>

\* one iteration of the bisection loop; the loop ends on its break test or
\* when range(max_iter) is exhausted
BisectIter ==
    /\ cpc = "bisect"
    /\ iter < max_iter
    /\ BisectBody(Midpoint(low, high), Integrate(sim, event, Midpoint(low, high)))
    /\ iter' = iter + 1
    /\ cpc' = IF Narrow(low', high') \/ ~(iter' < max_iter)
              THEN "bisect_done" ELSE "bisect"
    /\ UNCHANGED << ret, sim, event, calibrate_distance, tolerance, target,
                    traj_low, traj_high, result, halvings, growths >>
    /\ UNCHANGED << intVars, batchVars, cfgVars, outVars >>

\* the bisection loop is over: return the best trajectory seen
ReturnBest ==
    /\ cpc = "bisect_done"
    /\ LET final_diff == best_traj.landing_distance - target
       IN  result' = SimulationResult(best_traj, best_scale, << final_diff >>)
    /\ cpc' = "done"
    /\ ret' = "best"
    /\ UNCHANGED << sim, event, calibrate_distance, tolerance, target, low, high,
                    traj_low, traj_high, best_traj, best_scale, best_diff, iter,
                    evals, halvings, growths >>
    /\ UNCHANGED << intVars, batchVars, cfgVars, outVars >>

\* ------------------------------------------------------------------------
\* The calls of simulate_event that are run
\* ------------------------------------------------------------------------

\* the Simulator of the runs
DefaultSim ==
    [environment |-> StillAir, drag_model |-> DefaultDrag, lift_model |-> DefaultLift]

PlayEvent(launch_speed, launch_angle, spray_angle, hit_distance, spin_rpm) ==
    [launch_speed |-> launch_speed, launch_angle |-> launch_angle,
     spray_angle |-> spray_angle, hit_distance |-> hit_distance,
     spin_rpm |-> spin_rpm]

\* a line drive: 80 mph at 15 degrees, sprayed 15 degrees, 1800 rpm
Drive(hit_distance) == PlayEvent(8000, 15, 15, hit_distance, 1800)

\* a hard ground ball with a very high spin reading, whose lift exceeds
\* gravity: 120 mph at -3 degrees, 30000 rpm
Skimmer(hit_distance) == PlayEvent(12000, -3, 0, hit_distance, 30000)

\* landing distance of the line drive at the last scale of each expansion
DriveAtLowest == Integrate(DefaultSim, Drive(<< >>), Scale(1, 80)).landing_distance

DriveAtHighest == Integrate(DefaultSim, Drive(<< >>), Scale(405, 32)).landing_distance

\* the targets of the line drive: none, 0 ft, far too long, far too short,
\* exactly the distance at the end of either expansion, and distances reached
\* inside the bracket or after some expansion steps
DriveTargets ==
    { << >>, << 0 >>, << 900 * LEN >>, << LEN >>, << DriveAtLowest >>,
      << DriveAtHighest >>, << 200 * LEN >>, << DriveAtLowest - 100 >>,
      << DriveAtHighest + 100 >>, << 70 * LEN >> }

SkimmerTargets == { << 200 * LEN >>, << 45 * LEN >> }

\* a ball that drops off the bat: 5 mph, level; every scale lands it within
\* a few hundredths of a foot of 3.1 ft
Bunt(hit_distance) == PlayEvent(500, 0, 0, hit_distance, 1800)

BuntTargets == { << 311 >> }

Events ==
    { Drive(h) : h \in DriveTargets } \cup { Skimmer(h) : h \in SkimmerTargets }
        \cup { Bunt(h) : h \in BuntTargets }

\* the default tolerance of 15 ft
DEFAULT_TOLERANCE == 15 * LEN

Tolerances == { DEFAULT_TOLERANCE, 0 }

\* a call simulate_event(event, calibrate_distance=..., tolerance=...)
SimInit ==
    /\ BatchIdle /\ CfgIdle /\ OutIdle
    /\ sim = DefaultSim
    /\ event \in Events
    /\ calibrate_distance \in BOOLEAN
    /\ tolerance \in Tolerances
    /\ cpc = "start"
    /\ target = 0 /\ low = 0 /\ high = 0
    /\ traj_low = NoTrajectory /\ traj_high = NoTrajectory
    /\ best_traj = NoTrajectory /\ best_scale = 0 /\ best_diff = 0
    /\ iter = 0
    /\ result = NoResult
    /\ evals = << >>
    /\ halvings = 0 /\ growths = 0
    /\ ret = "none"
    /\ call = [pos0 |-> LaunchPos, vel0 |-> LaunchVel(event), p |-> << >>]
    /\ state = << >> /\ t = 0 /\ points = << >> /\ apex = 0
    /\ ipc = "idle" /\ exit = "none" /\ traj = NoTrajectory
    /\ raw = << >> /\ rk_steps = 0

NextSimulate ==
    \/ SimulatePlain
    \/ CalibrateStart
    \/ ExpandLow
    \/ ReturnLow
    \/ LowBracketed
    \/ ExpandHigh
    \/ ReturnHigh
    \/ BisectStart
    \/ BisectIter
    \/ ReturnBest

SpecSimulate == SimInit /\ [][NextSimulate]_vars

\* ------------------------------------------------------------------------
\* cli.py: the calls of simulate_event that _run_simulate makes on one
\* Simulator
\* ------------------------------------------------------------------------

\* number of plays of a batch
MaxCalls == 3

\* the plays of the batch: a target beyond the reach of the downward
\* expansion, one short of the reach of the upward expansion, one that is
\* bracketed and bisected
BatchEvents == { Drive(<< 900 * LEN >>), Drive(<< LEN >>), Drive(<< 200 * LEN >>) }

\* the first call of a batch
BatchInit == SimInit /\ event \in BatchEvents

\* simulate_event has returned for a play of the batch and is called for the
\* next play, with the same Simulator and the same calibrate_distance; the locals of the call
\* that returned are gone
NextCall ==
    /\ cpc = "done"
    /\ event \in BatchEvents
    /\ calls + 1 < MaxCalls
    /\ calls' = calls + 1
    /\ prior' = prior \cup { [event |-> event, tolerance |-> tolerance,
                             result |-> result] }
    /\ event' \in BatchEvents
    /\ call' = [pos0 |-> LaunchPos, vel0 |-> LaunchVel(event'), p |-> << >>]
    /\ cpc' = "start"
    /\ target' = 0 /\ low' = 0 /\ high' = 0
    /\ traj_low' = NoTrajectory /\ traj_high' = NoTrajectory
    /\ best_traj' = NoTrajectory /\ best_scale' = 0 /\ best_diff' = 0
    /\ iter' = 0
    /\ result' = NoResult
    /\ evals' = << >>
    /\ halvings' = 0 /\ growths' = 0
    /\ ret' = "none"
    /\ UNCHANGED << sim, calibrate_distance, tolerance >>
    /\ UNCHANGED << state, t, points, apex, ipc, exit, traj, raw, rk_steps >>
    /\ UNCHANGED << cfgVars, outVars >>

NextBatch == NextSimulate \/ NextCall

SpecBatch == BatchInit /\ [][NextBatch]_vars

\* ------------------------------------------------------------------------
\* simulate.py: simulate_event called again for the same play with another
\* tolerance
\* ------------------------------------------------------------------------

\* simulate_event has returned and is called on the same Simulator for the
\* same event with the same calibrate_distance and a different tolerance
CallAgain ==
    /\ cpc = "done"
    /\ calls + 1 < MaxCalls
    /\ calls' = calls + 1
    /\ prior' = prior \cup { [event |-> event, tolerance |-> tolerance,
                             result |-> result] }
    /\ tolerance' \in Tolerances \ { tolerance }
    /\ cpc' = "start"
    /\ target' = 0 /\ low' = 0 /\ high' = 0
    /\ traj_low' = NoTrajectory /\ traj_high' = NoTrajectory
    /\ best_traj' = NoTrajectory /\ best_scale' = 0 /\ best_diff' = 0
    /\ iter' = 0
    /\ result' = NoResult
    /\ evals' = << >>
    /\ halvings' = 0 /\ growths' = 0
    /\ ret' = "none"
    /\ UNCHANGED << sim, event, calibrate_distance >>
    /\ UNCHANGED << intVars, cfgVars, outVars >>

NextTolerance == NextSimulate \/ CallAgain

SpecTolerance == SimInit /\ [][NextTolerance]_vars

\* ------------------------------------------------------------------------
\* physics.py: DragModel.from_file, LiftModel.from_file and the calls of
\* DragModel.cd on the model built
\* ------------------------------------------------------------------------

\* the cd_model entries of the configuration files: the default table, a
\* table whose values rise and fall, a single knot, empty arrays, fewer
\* values than knots, more values than knots, knots that are not monotone
CdModels ==
    { DefaultDrag,
      [knots_mph |-> << 3000, 6000, 10500 >>, values |-> << 300000, 420000, 360000 >>],
      [knots_mph |-> << 6000 >>, values |-> << 400000 >>],
      [knots_mph |-> << >>, values |-> << >>],
      [knots_mph |-> << 0, 6000, 9000, 12000 >>, values |-> << 500000, 450000 >>],
      [knots_mph |-> << 3000, 9000 >>, values |-> << 500000, 450000, 330000 >>],
      [knots_mph |-> << 0, 9000, 6000, 12000 >>,
       values |-> << 500000, 450000, 330000, 300000 >>] }

\* the cl_model entries: c1 and max, c1 alone, c1 missing
ClModels == { [c1 |-> 1000, max |-> 250000], [c1 |-> 1000], [max |-> 250000] }

\* the parsed files: one named model, "default"
CfgFiles ==
    { [default |-> [cd_model |-> cd, cl_model |-> cl]] : cd \in CdModels, cl \in ClModels }

\* the name argument: the default and a name no file has
CfgNames == { "default", "humid" }

\* data[name]["cd_model"] and model["c1"] raise KeyError
FromFileRaises(data, name) ==
    IF name \notin DOMAIN data
    THEN TRUE
    ELSE IF "cd_model" \notin DOMAIN data[name] \/ "cl_model" \notin DOMAIN data[name]
         THEN TRUE
         ELSE "c1" \notin DOMAIN data[name].cl_model

\* DragModel.from_file: cls(tuple(model["knots_mph"]), tuple(model["values"]))
DragModel_from_file(data, name) ==
    [knots_mph |-> data[name].cd_model.knots_mph, values |-> data[name].cd_model.values]

\* LiftModel.from_file: cls(float(model["c1"]), float(model.get("max", 0.3)))
LiftModel_from_file(data, name) ==
    [c1 |-> data[name].cl_model.c1,
     max_value |-> IF "max" \in DOMAIN data[name].cl_model
                   THEN data[name].cl_model.max ELSE 300000]

\* a configuration file is about to be read
CfgInit ==
    /\ SimIdle /\ IntIdle /\ BatchIdle /\ OutIdle
    /\ cfg_data \in CfgFiles
    /\ cfg_name \in CfgNames
    /\ cfg_pc = "load"
    /\ drag = << >> /\ lift = << >> /\ cd_call = << >>

\* both from_file calls return
BuildModels ==
    /\ cfg_pc = "load"
    /\ ~FromFileRaises(cfg_data, cfg_name)
    /\ drag' = DragModel_from_file(cfg_data, cfg_name)
    /\ lift' = LiftModel_from_file(cfg_data, cfg_name)
    /\ cfg_pc' = "built"
    /\ UNCHANGED << cfg_data, cfg_name, cd_call >>
    /\ UNCHANGED << intVars, simVars, batchVars, outVars >>

\* a from_file call raises KeyError
BuildRaises ==
    /\ cfg_pc = "load"
    /\ FromFileRaises(cfg_data, cfg_name)
    /\ cfg_pc' = "failed"
    /\ UNCHANGED << cfg_data, cfg_name, drag, lift, cd_call >>
    /\ UNCHANGED << intVars, simVars, batchVars, outVars >>

RECURSIVE CdLoopRaises(_, _, _)
\* the for loop of DragModel.cd from index i raises IndexError: values[i]
\* of the code (the model's values[i]) does not exist
CdLoopRaises(model, speed_mph, i) ==
    IF i > Len(model.knots_mph)
    THEN Len(model.values) = 0
    ELSE IF speed_mph <= model.knots_mph[i]
         THEN i > Len(model.values)
         ELSE CdLoopRaises(model, speed_mph, i + 1)

\* DragModel.cd raises IndexError at a speed in 1/100 mph
CdRaises(model, speed_mph) ==
    IF Len(model.knots_mph) = 0
    THEN TRUE
    ELSE IF speed_mph <= model.knots_mph[1]
         THEN Len(model.values) = 0
         ELSE IF speed_mph >= model.knots_mph[Len(model.knots_mph)]
              THEN Len(model.values) = 0
              ELSE CdLoopRaises(model, speed_mph, 2)

\* speed_mph = speed_fps / MPH_TO_FPS
SpeedMph(speed_fps) == MulDiv(speed_fps, MPH_TO_FPS_DEN, MPH_TO_FPS_NUM)

\* the speeds of the cd calls, in 1/100 ft/s: 0, 30, 60, 75, 90, 105, 120 mph
\* and 200 ft/s
CdSpeeds == { 0, 4400, 8800, 11000, 13200, 15400, 17600, 20000 }

\* the scales of the cd calls: 1, 1/10, 5/2, 1/80
CdScales == { Scale(1, 1), Scale(1, 10), Scale(5, 2), Scale(1, 80) }

\* what drag.cd(speed_fps, scale) does: the value returned or IndexError
CdOutcome(model, speed_fps, scale) ==
    IF CdRaises(model, SpeedMph(speed_fps))
    THEN [speed_fps |-> speed_fps, scale |-> scale, raised |-> TRUE, value |-> 0]
    ELSE [speed_fps |-> speed_fps, scale |-> scale, raised |-> FALSE,
          value |-> DragModel_cd(model, speed_fps, scale)]

\* a call drag.cd(speed_fps, scale) on the model built, as _acceleration
\* makes it
CallCd ==
    /\ cfg_pc = "built"
    /\ \E speed_fps \in CdSpeeds, scale \in CdScales :
           cd_call' = CdOutcome(drag, speed_fps, scale)
    /\ cfg_pc' = "used"
    /\ UNCHANGED << cfg_data, cfg_name, drag, lift >>
    /\ UNCHANGED << intVars, simVars, batchVars, outVars >>

NextConfig == BuildModels \/ BuildRaises \/ CallCd

SpecConfig == CfgInit /\ [][NextConfig]_vars

\* ------------------------------------------------------------------------
\* output.py: OutputWriter.write
\* ------------------------------------------------------------------------

\* largest number of results passed to write
MaxResults == 4

\* inning_half_order.get(inning_half, 2)
half_order(inning_half) ==
    IF inning_half = "Top" THEN 0 ELSE IF inning_half = "Bot" THEN 1 ELSE 2

\* _sort_key without the row index
_sort_keyByHalf(res) ==
    << res.event.inning, half_order(res.event.inning_half), 0 >>

\* _sort_key(result)
_sort_key(res) ==
    << res.event.inning, half_order(res.event.inning_half),
       res.event.row_index >>

\* the order of Python on tuples of three integers: a < b
TupleLess(a, b) ==
    \/ a[1] < b[1]
    \/ a[1] = b[1] /\ a[2] < b[2]
    \/ a[1] = b[1] /\ a[2] = b[2] /\ a[3] < b[3]

RECURSIVE SortedInsert(_, _)
\* a result put into a list sorted by _sort_key, behind every entry whose
\* key is not larger than its own
SortedInsert(seq, r) ==
    IF seq = << >>
    THEN << r >>
    ELSE IF TupleLess(_sort_key(r), _sort_key(Head(seq)))
         THEN << r >> \o seq
         ELSE << Head(seq) >> \o SortedInsert(Tail(seq), r)

RECURSIVE sorted(_)
\* sorted(results, key=_sort_key): a stable sort
sorted(seq) ==
    IF seq = << >>
    THEN << >>
    ELSE SortedInsert(sorted(SubSeq(seq, 1, Len(seq) - 1)), seq[Len(seq)])

\* a SimulationResult as write reads it: the fields of its event that are
\* written or sorted on, and its numbers in 1/100 ft
OutResult(play_id, row_index, inning, inning_half, hit_distance, landing_distance) ==
    [event |-> [play_id |-> play_id, row_index |-> row_index, inning |-> inning,
                inning_half |-> inning_half, hit_distance |-> hit_distance],
     trajectory |-> [landing_distance |-> landing_distance],
     drag_scale |-> Scale(1, 1),
     distance_error |-> IF Truthy(hit_distance)
                        THEN << landing_distance - hit_distance[1] >> ELSE << >>]

\* the results of the plays of one CSV file, row_index being the number of
\* the row: two halves of an inning, a half the table does not name, a row
\* without inning, and a play_id that occurs twice
ResultPool ==
    { OutResult("a", 0, 1, "Top", << 38000 >>, 39200),
      OutResult("b", 1, 1, "Bot", << >>, 31000),
      OutResult("c", 2, 1, "Top", << 0 >>, 12000),
      OutResult("a", 3, 1, "Unknown", << 25000 >>, 25000),
      OutResult("e", 4, 0, "Mid", << 9000 >>, 9500) }

\* the lists of up to MaxResults distinct results, in every order
ResultLists ==
    { seq \in UNION { [1..n -> ResultPool] : n \in 0..MaxResults } :
        \A i, j \in 1..Len(seq) : i # j => seq[i] # seq[j] }

\* a call writer.write(ballpark, results)
OutInit ==
    /\ SimIdle /\ IntIdle /\ BatchIdle /\ CfgIdle
    /\ results \in ResultLists
    /\ out_pc = "start"
    /\ ordered_results = << >> /\ next_result = 0
    /\ playlist_payload = << >> /\ summary_rows = << >>
    /\ playlist_file = << >> /\ trajectory_files = { }

\* the sort, the playlist dictionary and the header row
WriteStart ==
    /\ out_pc = "start"
    /\ ordered_results' = sorted(results)
    /\ playlist_payload' = [count |-> Len(sorted(results)), plays |-> << >>]
    /\ summary_rows' = << >>
    /\ next_result' = 1
    /\ out_pc' = "rows"
    /\ UNCHANGED << results, playlist_file, trajectory_files >>
    /\ UNCHANGED << intVars, simVars, batchVars, cfgVars >>

\* the entry of playlist_payload["plays"] of a result
PlayOf(res) ==
    [play_id |-> res.event.play_id, inning |-> res.event.inning,
     inning_half |-> res.event.inning_half,
     trajectory |-> << "trajectories", res.event.play_id >>]

\* the summary row of a result; the numbers, in 1/100 ft, are unchanged by
\* round(x, 4)
RowOf(res) ==
    [play_id |-> res.event.play_id, inning |-> res.event.inning,
     inning_half |-> res.event.inning_half,
     hit_distance |-> IF Truthy(res.event.hit_distance)
                      THEN res.event.hit_distance ELSE << >>,
     sim_distance |-> res.trajectory.landing_distance,
     distance_error |-> res.distance_error,
     drag_scale |-> res.drag_scale]

\* WriteResult writing a summary row only for results with a target distance
WriteResultWithTarget ==
    /\ out_pc = "rows"
    /\ next_result <= Len(ordered_results)
    /\ playlist_payload' =
          [playlist_payload EXCEPT !.plays = Append(@, PlayOf(ordered_results[next_result]))]
    /\ trajectory_files' =
          trajectory_files \cup { ordered_results[next_result].event.play_id }
    /\ summary_rows' =
          IF Truthy(ordered_results[next_result].event.hit_distance)
          THEN Append(summary_rows, RowOf(ordered_results[next_result]))
          ELSE summary_rows
    /\ next_result' = next_result + 1
    /\ UNCHANGED << results, out_pc, ordered_results, playlist_file >>
    /\ UNCHANGED << intVars, simVars, batchVars, cfgVars >>

\* one iteration of the loop over ordered_results: the play, the trajectory
\* file, the summary row
WriteResult ==
    /\ out_pc = "rows"
    /\ next_result <= Len(ordered_results)
    /\ playlist_payload' =
          [playlist_payload EXCEPT !.plays = Append(@, PlayOf(ordered_results[next_result]))]
    /\ trajectory_files' =
          trajectory_files \cup { ordered_results[next_result].event.play_id }
    /\ summary_rows' = Append(summary_rows, RowOf(ordered_results[next_result]))
    /\ next_result' = next_result + 1
    /\ UNCHANGED << results, out_pc, ordered_results, playlist_file >>
    /\ UNCHANGED << intVars, simVars, batchVars, cfgVars >>

\* the loop is over: playlist.json is written
WriteFinish ==
    /\ out_pc = "rows"
    /\ next_result > Len(ordered_results)
    /\ playlist_file' = << playlist_payload >>
    /\ out_pc' = "done"
    /\ UNCHANGED << results, ordered_results, next_result, playlist_payload,
                    summary_rows, trajectory_files >>
    /\ UNCHANGED << intVars, simVars, batchVars, cfgVars >>

NextOutput == WriteStart \/ WriteResult \/ WriteFinish

SpecOutput == OutInit /\ [][NextOutput]_vars

Init == IntInit \/ SimInit \/ CfgInit \/ OutInit

Next ==
    NextIntegrate \/ NextSimulate \/ NextCall \/ CallAgain \/ NextConfig \/ NextOutput

Spec == Init /\ [][Next]_vars

\* ------------------------------------------------------------------------
\* Properties
\* ------------------------------------------------------------------------

Last(seq) == seq[Len(seq)]

\* the error of a result that has one
Err == result.distance_error[1]

\* simulate_event has returned from _calibrate_to_distance
Calibrated == cpc = "done" /\ ret \in { "low", "high", "best" }

\* 0.02 <= scale <= 12.0
InNominalRange(scale) == scale * 50 >= SCALE_DEN /\ scale <= Scale(12, 1)

\* the target lies within [distance_at_scale(12.0), distance_at_scale(0.02)]
TargetReachable ==
    /\ Integrate(sim, event, Scale(12, 1)).landing_distance <= target
    /\ target <= Integrate(sim, event, Scale(1, 50)).landing_distance

\* C1: every calibrated event whose target lies within
\* [distance_at_scale(12.0), distance_at_scale(0.02)] is returned with
\* |distance_error| <= 15 ft.
C1_CalibrationAccuracy ==
    (Calibrated /\ TargetReachable) => Abs(Err) <= DEFAULT_TOLERANCE

\* C2: no integration is run at a drag scale outside [0.02, 12.0] and the
\* drag_scale returned by calibration lies in [0.02, 12.0].
C2_ScaleInNominalRange ==
    /\ \A i \in 1..Len(evals) : InNominalRange(evals[i])
    /\ Calibrated => InNominalRange(result.drag_scale)

\* C3 as stated: a calibration that fails to bracket the target returns the
\* trajectory of the last expanded endpoint and a nonzero distance_error
\* equal to achieved - target.
C3_NonzeroError ==
    (cpc = "done" /\ ret \in { "low", "high" }) =>
        /\ Err # 0
        /\ Err = result.trajectory.landing_distance - target

\* C3 amended: a calibration that fails to bracket the target returns the
\* trajectory and scale of the last expanded endpoint and the signed error
\* achieved - target, which is <= 0 after the downward expansion and >= 0
\* after the upward one (it may be zero).
C3_NoBracketReturn ==
    /\ (cpc = "done" /\ ret = "low") =>
          /\ result.trajectory = traj_low /\ result.drag_scale = low
          /\ low = Last(evals)
          /\ Err = traj_low.landing_distance - target
          /\ Err <= 0
    /\ (cpc = "done" /\ ret = "high") =>
          /\ result.trajectory = traj_high /\ result.drag_scale = high
          /\ high = Last(evals)
          /\ Err = traj_high.landing_distance - target
          /\ Err >= 0

\* the downward expansion ended on a landing distance equal to the target
C3_Witness ==
    cpc = "done" /\ ret = "low" /\ halvings = 3 /\ Err = 0

\* C4: the trajectory returned by integrate_trajectory is non-empty and its
\* first point is the supplied initial position at t = 0; through
\* simulate_event the first point is (0, 0, 3).
C4_FirstPoint ==
    /\ ipc = "done" =>
          /\ Len(traj.points) >= 1
          /\ traj.points[1] = TrajectoryPoint(0, call.pos0[1], call.pos0[2], call.pos0[3])
    /\ cpc = "done" =>
          /\ Len(result.trajectory.points) >= 1
          /\ result.trajectory.points[1] = TrajectoryPoint(0, 0, 0, 3 * LEN)

\* a two-point trajectory whose last point was refined
C4_Witness ==
    /\ ipc = "done" /\ exit = "ground"
    /\ Len(traj.points) = 2
    /\ Last(raw).z < 0
    /\ call.pos0[1] # 0

\* C5: when the loop ends on ground contact, the final point has z = 0,
\* landing_distance = hypot(final.x, final.y) and flight_time = final.t.
C5_GroundContact ==
    (ipc = "done" /\ exit = "ground") =>
        /\ Last(traj.points).z = 0
        /\ traj.landing_distance = Hypot(Last(traj.points).x, Last(traj.points).y)
        /\ traj.flight_time = Last(traj.points).t

\* a ground contact from the contact height whose last sample was below
\* the ground and was refined
C5_Witness ==
    /\ ipc = "done" /\ exit = "ground"
    /\ call.pos0[3] = 3 * LEN
    /\ Last(raw).z < 0
    /\ Last(traj.points).t < Last(raw).t
    /\ Len(traj.points) > 2

\* C6: the points of every returned trajectory are strictly increasing in t,
\* for any initial height.
C6_StrictlyIncreasing ==
    ipc = "done" =>
        \A i \in 1..(Len(traj.points) - 1) : traj.points[i].t < traj.points[i + 1].t

RECURSIVE MaxZ(_)
\* the largest z of a non-empty sequence of points
MaxZ(pts) ==
    IF Len(pts) = 1 THEN pts[1].z ELSE Max(pts[1].z, MaxZ(Tail(pts)))

\* C7: apex is the maximum z over the raw samples, hence at least the
\* initial height and at least the z of every returned point.
C7_Apex ==
    ipc = "done" =>
        /\ traj.apex = MaxZ(raw)
        /\ traj.apex >= call.pos0[3]
        /\ \A i \in 1..Len(traj.points) : traj.apex >= traj.points[i].z

\* floor(max_time / dt) + 1
StepBound == (call.p.max_time \div call.p.dt) + 1

\* C8 as stated: at most max_time / dt Runge-Kutta steps and at most
\* floor(max_time / dt) + 1 points.
C8_StepsWithinHorizon ==
    ipc # "idle" =>
        /\ rk_steps * call.p.dt <= call.p.max_time
        /\ Len(points) <= StepBound

\* C8 amended: for dt > 0 and max_time >= 0, at most floor(max_time / dt) + 1
\* Runge-Kutta steps and at most floor(max_time / dt) + 1 points.
C8_BoundedSteps ==
    ipc # "idle" =>
        /\ rk_steps <= StepBound
        /\ Len(points) <= StepBound
        /\ Len(traj.points) <= StepBound

\* a flight cut off by max_time after the largest number of steps
C8_Witness ==
    /\ ipc = "done" /\ exit = "max_time"
    /\ call.p.max_time > 0
    /\ rk_steps = StepBound
    /\ Len(traj.points) = StepBound

\* C9: calibration runs 2 initial integrations, at most 3 halvings of low,
\* at most 4 multiplications of high and at most 24 bisection integrations:
\* at most 33 integrations per event.
C9_BoundedCalibration ==
    /\ halvings <= 3
    /\ growths <= 4
    /\ iter <= max_iter
    /\ Len(evals) <= 33
    /\ cpc \in { "expand_low", "expand_high", "bisect", "bisect_done" } \/ Calibrated
          => Len(evals) = 2 + halvings + growths + iter

\* a calibration that multiplied high four times and then bisected
C9_Witness ==
    Calibrated /\ growths = 4 /\ iter >= 10 /\ ret = "best"

\* C10: without calibration the drag_scale is 1.0; distance_error is none
\* exactly when the event has no target distance, and otherwise it is
\* achieved - target, also for a target of 0.
C10_Result ==
    cpc = "done" =>
        /\ ret = "plain" => result.drag_scale = Scale(1, 1)
        /\ result.distance_error = << >> <=> event.hit_distance = << >>
        /\ event.hit_distance # << >> =>
              result.distance_error =
                  << result.trajectory.landing_distance - event.hit_distance[1] >>

\* the knots are strictly increasing
StrictlyIncreasing(knots) ==
    \A i \in 1..(Len(knots) - 1) : knots[i] < knots[i + 1]

\* a (knot, value) table: non-empty arrays of one length, increasing knots
IsTable(model) ==
    /\ Len(model.knots_mph) > 0
    /\ Len(model.values) = Len(model.knots_mph)
    /\ StrictlyIncreasing(model.knots_mph)

\* C11: a DragModel/LiftModel is built only from a configuration that has
\* the named model, non-empty knot and value arrays of one length and
\* monotone knots; hence cd is never called on a model that is not a table.
C11_MalformedRejected ==
    cfg_pc \in { "built", "used" } =>
        /\ cfg_name \in DOMAIN cfg_data
        /\ IsTable(cfg_data[cfg_name].cd_model)
        /\ IsTable(drag)

\* v is the clamped piecewise-linear interpolant of the table at a speed in
\* 1/100 mph: the boundary values outside the knots, the tabulated value at
\* a knot, and between two knots the linear blend of their values, to the
\* resolution of the fixed point
IsInterpolant(model, speed_mph, v) ==
    LET k == model.knots_mph
        vals == model.values
        n == Len(k)
    IN  IF speed_mph <= k[1] THEN v = vals[1]
        ELSE IF speed_mph >= k[n] THEN v = vals[n]
        ELSE \E i \in 2..n :
                /\ k[i - 1] < speed_mph /\ speed_mph <= k[i]
                /\ speed_mph = k[i] => v = vals[i]
                /\ Min(vals[i - 1], vals[i]) <= v /\ v <= Max(vals[i - 1], vals[i])
                /\ Abs((v - vals[i - 1]) * (k[i] - k[i - 1])
                       - (speed_mph - k[i - 1]) * (vals[i] - vals[i - 1]))
                     <= (k[i] - k[i - 1]) * (Abs(vals[i] - vals[i - 1]) \div FRAC + 2)

\* C12: on a table with strictly increasing knots, cd(speed, scale) raises
\* nothing and equals scale times cd(speed, 1), and cd(speed, 1) is the
\* clamped piecewise-linear interpolant of the table.
C12_ClampedInterpolant ==
    (cfg_pc = "used" /\ IsTable(drag)) =>
        /\ ~cd_call.raised
        /\ cd_call.value
             = ScaleTimes(cd_call.scale, DragModel_cd(drag, cd_call.speed_fps, Scale(1, 1)))
        /\ IsInterpolant(drag, SpeedMph(cd_call.speed_fps),
                         DragModel_cd(drag, cd_call.speed_fps, Scale(1, 1)))

\* cd was called strictly between two knots of a table whose values differ,
\* with a scale other than 1
C12_Witness ==
    /\ cfg_pc = "used" /\ IsTable(drag) /\ Len(drag.knots_mph) = 3
    /\ cd_call.scale = Scale(5, 2)
    /\ SpeedMph(cd_call.speed_fps) = 7500
    /\ cd_call.value > 0

Precedes(a, b) ==
    LET rank(h) == IF h = "Top" THEN 0 ELSE IF h = "Bot" THEN 1 ELSE 2
    IN  \/ a.event.inning < b.event.inning
        \/ /\ a.event.inning = b.event.inning
           /\ rank(a.event.inning_half) < rank(b.event.inning_half)
        \/ /\ a.event.inning = b.event.inning
           /\ rank(a.event.inning_half) = rank(b.event.inning_half)
           /\ a.event.row_index < b.event.row_index

\* the list of the results of the set in ascending order
Ascending(set) ==
    CHOOSE seq \in [1..Cardinality(set) -> set] :
        \A i, j \in 1..Cardinality(set) : i < j => Precedes(seq[i], seq[j])

\* the elements of a list
Range(seq) == { seq[i] : i \in 1..Len(seq) }

\* C14: whatever the order of the results passed in, the plays of the
\* playlist written and the summary rows are those of the results in
\* ascending order of (inning, half with Top < Bot < other, row_index).
C14_OrderIndependent ==
    out_pc = "done" =>
        /\ playlist_file[1].plays
             = [i \in 1..Len(results) |-> PlayOf(Ascending(Range(results))[i])]
        /\ summary_rows
             = [i \in 1..Len(results) |-> RowOf(Ascending(Range(results))[i])]

\* four results were passed in an order that is not the ascending one, two of
\* them of the same inning and half
C14_Witness ==
    /\ out_pc = "done" /\ Len(results) = 4
    /\ Precedes(results[4], results[1])
    /\ \E i, j \in 1..4 :
          /\ i < j /\ results[i].event.row_index > results[j].event.row_index
          /\ results[i].event.inning_half = results[j].event.inning_half

\* number of entries of a list with the given play_id
CountOf(seq, play_id) == Cardinality({ i \in 1..Len(seq) : seq[i].play_id = play_id })

\* C15: after write, count = number of plays = number of results, the
\* summary has one data row per result, and every play_id occurs in the
\* plays and in the rows as often as among the results.
C15_NothingLost ==
    out_pc = "done" =>
        /\ playlist_file[1].count = Len(playlist_file[1].plays)
        /\ playlist_file[1].count = Len(results)
        /\ Len(summary_rows) = Len(results)
        /\ \A r \in Range(results) :
              /\ CountOf(playlist_file[1].plays, r.event.play_id)
                   = Cardinality({ i \in 1..Len(results) :
                                     results[i].event.play_id = r.event.play_id })
              /\ CountOf(summary_rows, r.event.play_id)
                   = Cardinality({ i \in 1..Len(results) :
                                     results[i].event.play_id = r.event.play_id })

\* results with a play_id shared by two of them and one without target
\* distance were written
C15_Witness ==
    /\ out_pc = "done" /\ Len(results) = 3
    /\ Cardinality({ results[i].event.play_id : i \in 1..3 }) = 2
    /\ \E i \in 1..3 : results[i].event.hit_distance = << >>

\* C16: a launch from a non-positive height, integrated with
\* max_time >= dt > 0, returns at least two points.
C16_LowLaunchAdvances ==
    (ipc = "done" /\ call.pos0[3] <= 0 /\ call.p.dt > 0
        /\ call.p.max_time >= call.p.dt) =>
        Len(traj.points) >= 2

\* a launch from below the ground returned after its first step
C16_Witness ==
    /\ ipc = "done" /\ call.pos0[3] < 0
    /\ call.p.max_time >= call.p.dt
    /\ rk_steps = 1 /\ exit = "ground"

\* C17 as stated: a flight that did not reach z <= 0 at any sample with
\* 0 < t <= max_time is returned unrefined: the points are the raw samples,
\* the last point has z > 0, and flight_time <= max_time.
C17_Truncated ==
    (ipc = "done" /\ exit = "max_time") =>
        /\ traj.points = raw
        /\ Last(traj.points).z > 0
        /\ traj.flight_time <= call.p.max_time

\* C17 amended: for max_time >= 0 such a flight is returned unrefined: the
\* points are the raw samples, flight_time = t of the last sample
\* <= max_time, and the last point has z > 0 unless it is the only point,
\* the sample at t = 0 of a launch from a non-positive height.
C17_TruncatedRaw ==
    (ipc = "done" /\ exit = "max_time") =>
        /\ traj.points = raw
        /\ traj.flight_time = Last(raw).t
        /\ traj.flight_time <= call.p.max_time
        /\ \/ Last(traj.points).z > 0
           \/ Len(traj.points) = 1 /\ call.pos0[3] <= 0

\* a flight of several samples cut off by max_time while descending
C17_Witness ==
    /\ ipc = "done" /\ exit = "max_time"
    /\ Len(traj.points) >= 4
    /\ Last(traj.points).z < traj.points[Len(traj.points) - 1].z
    /\ Last(traj.points).z > 0

\* the landing distance of the event of the call at a drag scale
DistanceAt(scale) == Integrate(sim, event, scale).landing_distance

\* C18: at the start of every bisection iteration low < high and
\* distance(low) > target >= distance(high), strictly on both sides before
\* the first iteration; an iteration replaces low by the midpoint exactly
\* when the midpoint's distance exceeds the target and high otherwise, and
\* halves high - low.
C18_Bracket ==
    [][ /\ cpc = "bisect" =>
              /\ low < high
              /\ DistanceAt(low) > target
              /\ target >= DistanceAt(high)
              /\ iter = 0 => target > DistanceAt(high)
        /\ (cpc = "bisect" /\ cpc' \in { "bisect", "bisect_done" }) =>
              /\ IF DistanceAt((low + high) \div 2) > target
                 THEN low' = (low + high) \div 2 /\ high' = high
                 ELSE high' = (low + high) \div 2 /\ low' = low
              /\ (high' - low') * 2 = high - low
      ]_vars

\* a bisection that has replaced both ends of its bracket
C18_Witness ==
    /\ cpc = "bisect" /\ iter >= 3
    /\ low > (IF halvings = 0 THEN evals[1] ELSE evals[2 + halvings])
    /\ high < (IF growths = 0 THEN evals[2] ELSE evals[2 + halvings + growths])

\* the candidates of the bisection in the order they are seen: the lower
\* endpoint at the start, then every midpoint
Candidates ==
    << IF halvings = 0 THEN evals[1] ELSE evals[2 + halvings] >>
        \o SubSeq(evals, 3 + halvings + growths, Len(evals))

\* C19: the result of a bisection is the first of its candidates (the lower
\* endpoint at the start, then the midpoints in order) whose absolute
\* distance error is the smallest of all candidates.
C19_BestSeen ==
    (cpc = "done" /\ ret = "best") =>
        \E k \in 1..Len(Candidates) :
            /\ Candidates[k] = result.drag_scale
            /\ result.trajectory = Integrate(sim, event, Candidates[k])
            /\ \A i \in 1..Len(Candidates) :
                  IF i < k
                  THEN Abs(DistanceAt(Candidates[i]) - target) > Abs(Err)
                  ELSE Abs(DistanceAt(Candidates[i]) - target) >= Abs(Err)

\* a bisection returned a candidate although a later midpoint was as close
C19_Witness ==
    /\ cpc = "done" /\ ret = "best" /\ iter >= 5
    /\ \E k \in 1..Len(Candidates) : \E i \in (k + 1)..Len(Candidates) :
          /\ Candidates[k] = result.drag_scale
          /\ Abs(DistanceAt(Candidates[i]) - target) = Abs(Err)

\* C20: whichever return of _calibrate_to_distance is taken, the trajectory
\* returned is the one integrated at the drag_scale returned and the
\* distance_error returned is its landing_distance minus the target.
C20_ConsistentTriple ==
    Calibrated =>
        /\ result.trajectory = Integrate(sim, event, result.drag_scale)
        /\ result.distance_error
             = << result.trajectory.landing_distance - event.hit_distance[1] >>

\* a calibration returned from the upward expansion after multiplying high
C20_Witness ==
    Calibrated /\ ret = "high" /\ growths >= 1 /\ result.drag_scale > InitialHigh

\* C21: a call of simulate_event that differs from an earlier one only in
\* its tolerance returns the same trajectory, drag_scale and distance_error,
\* and the bisection loop is left only when high - low < 1e-3 or when its 24
\* iterations are used up, whatever the error is.
C21_ToleranceIgnored ==
    [][ /\ cpc' = "done" =>
              \A r \in prior' :
                  (r.event = event' /\ r.tolerance # tolerance') => r.result = result'
        /\ (cpc = "bisect" /\ cpc' = "bisect_done") =>
              \/ (high' - low') * 25 < SCALE_DEN \div 40
              \/ iter' = 24
      ]_vars

\* the same play was calibrated with tolerance 0 and with the default
\* tolerance, and the bisection went on after a candidate had come within
\* the default tolerance
C21_Witness ==
    /\ cpc = "done" /\ ret = "best"
    /\ \E r \in prior : r.event = event /\ r.tolerance # tolerance
    /\ \E i \in 1..(Len(Candidates) - 1) :
          Abs(DistanceAt(Candidates[i]) - target) <= DEFAULT_TOLERANCE

\* C22: the bisection loop is always left through high - low < 1e-3 and
\* never because its 24 iterations are used up: no call runs more than 14
\* bisection iterations.
C22_WidthExit ==
    [][ /\ iter' <= 14
        /\ (cpc = "bisect" /\ cpc' = "bisect_done") =>
              /\ (high' - low') * 25 < SCALE_DEN \div 40
              /\ iter' < 24
      ]_vars

\* a bisection of a bracket widened by the expansion, left through the
\* width test after 14 iterations
C22_Witness ==
    /\ cpc = "bisect_done" /\ iter = 14
    /\ halvings + growths >= 1
    /\ (high - low) * 25 < SCALE_DEN \div 40

====
